---- MODULE Spec2Model ----
(***************************************************************************)
(* no_file_left_behind (src/main.py): reconcile a scratch tree against an  *)
(* archive tree.  The model covers LazyFile (lazy cached size and sha1),   *)
(* read_files, group_by, match_by, write_paths_to_file and main.           *)
(*                                                                         *)
(* Text (paths, file contents, report files) is a sequence of character    *)
(* codes, so that endswith, join, sort and '\n' are computed, not assumed. *)
(* Python's None is the empty sequence and a value v that may be None is   *)
(* the one-element sequence <<v>>.                                         *)
(***************************************************************************)
EXTENDS Integers, Sequences, FiniteSets, TLC

VARIABLES
    pc,        \* position of main(): start, read_archive, filter, match,
               \*   summary, write, done, error; "lazy" in SpecLazy
    args,      \* parsed command line: scratch, archive, output
    dirs,      \* file system: directory path -> file names in os.walk order
    disk,      \* file system: file path -> [exists, readable, data]
    files,     \* heap of LazyFile objects; a descriptor is an index into it
    scratch,   \* main's list `scratch` (descriptors)
    archive,   \* main's list `archive` (descriptors)
    funcs,     \* key-function list handed to match_by
    matched,   \* main's `matched`, None until match_by has returned
    no_match,  \* main's `no_match`, None until match_by has returned
    log,       \* every file-system read done for a key: [op, f, ok]
    stdout,    \* lines printed
    written,   \* report files written: name -> text
    ret,       \* result of the last attribute access (SpecLazy)
    nenv       \* number of file-system changes made by the environment

vars == <<pc, args, dirs, disk, files, scratch, archive, funcs, matched,
          no_match, log, stdout, written, ret, nenv>>

(***************************************************************************)
(* Bounds of the model.                                                    *)
(***************************************************************************)
MaxFiles == 3     \* files under the scratch root plus files under the archive root
MaxFaults == 1    \* file-system changes by the environment during a run of main
MaxCalls == 4     \* attribute accesses plus file-system changes in SpecLazy
MaxFuncs == 2     \* length of the key-function list in SpecMatch

(***************************************************************************)
(* Program constants.                                                      *)
(***************************************************************************)
HASH_BUF_BYTES == 65536

\* '.DS_Store', '.gdoc', '.gsheet', '.gslides'
IGNORED_FILES ==
    << <<46, 68, 83, 95, 83, 116, 111, 114, 101>>,
       <<46, 103, 100, 111, 99>>,
       <<46, 103, 115, 104, 101, 101, 116>>,
       <<46, 103, 115, 108, 105, 100, 101, 115>> >>

None == <<>>
Some(v) == <<v>>

(***************************************************************************)
(* Text helpers.                                                           *)
(***************************************************************************)
\* str.endswith
endswith(s, suffix) ==
    /\ Len(suffix) <= Len(s)
    /\ SubSeq(s, Len(s) - Len(suffix) + 1, Len(s)) = suffix

\* os.path.join(dirpath, filename) for a relative filename
os_path_join(dirpath, filename) ==
    IF dirpath = <<>> THEN filename
    ELSE IF dirpath[Len(dirpath)] = 47 THEN dirpath \o filename
    ELSE dirpath \o <<47>> \o filename

\* Python's < on str: lexicographic on code points, a proper prefix first
RECURSIVE str_lt(_, _)
str_lt(a, b) ==
    IF b = <<>> THEN FALSE
    ELSE IF a = <<>> THEN TRUE
    ELSE IF Head(a) # Head(b) THEN Head(a) < Head(b)
    ELSE str_lt(Tail(a), Tail(b))

\* list.sort() on a list of str (stable insertion into the sorted prefix)
RECURSIVE insert_sorted(_, _)
insert_sorted(sorted, s) ==
    IF sorted = <<>> THEN <<s>>
    ELSE IF str_lt(s, Head(sorted)) THEN <<s>> \o sorted
    ELSE <<Head(sorted)>> \o insert_sorted(Tail(sorted), s)

RECURSIVE list_sort(_)
list_sort(l) ==
    IF l = <<>> THEN <<>>
    ELSE insert_sorted(list_sort(SubSeq(l, 1, Len(l) - 1)), l[Len(l)])

\* sep.join(strs)
RECURSIVE str_join(_, _)
str_join(sep, strs) ==
    IF strs = <<>> THEN <<>>
    ELSE IF Len(strs) = 1 THEN strs[1]
    ELSE strs[1] \o sep \o str_join(sep, Tail(strs))

(***************************************************************************)
(* The file system as the program sees it.                                 *)
(***************************************************************************)
\* os.path.isfile: False for anything that cannot be stat'ed
os_path_isfile(p) == p \in DOMAIN disk /\ disk[p].exists

\* os.walk(top) on a flat directory: the file names of top; a top that is
\* missing or cannot be listed yields nothing (onerror is None)
os_walk(top) == IF top \in DOMAIN dirs THEN dirs[top] ELSE <<>>

\* os.path.getsize succeeds iff the path can be stat'ed
getsize_ok(p) == p \in DOMAIN disk /\ disk[p].exists

\* open(p, 'rb') succeeds iff the file exists and may be read
open_ok(p) == p \in DOMAIN disk /\ disk[p].exists /\ disk[p].readable

\* faulty variant of read_loop: the chunks read are never fed to update()
read_loop_no_update(data, pos, state) == state

\* the read loop of LazyFile.sha1: chunks of HASH_BUF_BYTES until an empty
\* read; the running sha1 state is the byte stream fed to update() so far
RECURSIVE read_loop(_, _, _)
read_loop(data, pos, state) ==
    LET last == IF pos + HASH_BUF_BYTES < Len(data) THEN pos + HASH_BUF_BYTES
                ELSE Len(data)
        chunk == SubSeq(data, pos + 1, last)
    IN IF chunk = <<>> THEN state
       ELSE read_loop(data, last, state \o chunk)

\* sha1.hexdigest(): SHA-1 taken as collision free, a digest stands for
\* the byte stream hashed
hexdigest(state) == [hex |-> state]

(***************************************************************************)
(* LazyFile.  A world w = [files, log, raised] is threaded through every   *)
(* operation: the heap, the reads done, and whether an exception is        *)
(* propagating (every operation is skipped while one is).                  *)
(***************************************************************************)
LazyFile(full_path) ==
    [full_path |-> full_path, _size |-> None, _sha1 |-> None]

\* faulty variant of size: `if not self._size` instead of `is None`, so a
\* cached size of 0 counts as not cached
size_truthy(w, f) ==
    IF w.raised THEN w
    ELSE IF w.files[f]._size = None \/ w.files[f]._size = Some(0)
    THEN IF getsize_ok(w.files[f].full_path)
         THEN [w EXCEPT
                 !.files[f]._size = Some(Len(disk[w.files[f].full_path].data)),
                 !.log = Append(@, [op |-> "getsize", f |-> f, ok |-> TRUE])]
         ELSE [w EXCEPT
                 !.raised = TRUE,
                 !.log = Append(@, [op |-> "getsize", f |-> f, ok |-> FALSE])]
    ELSE w

\* property LazyFile.size: the world after evaluating w.files[f].size
size(w, f) ==
    IF w.raised THEN w
    ELSE IF w.files[f]._size = None
    THEN IF getsize_ok(w.files[f].full_path)
         THEN [w EXCEPT
                 !.files[f]._size = Some(Len(disk[w.files[f].full_path].data)),
                 !.log = Append(@, [op |-> "getsize", f |-> f, ok |-> TRUE])]
         ELSE [w EXCEPT
                 !.raised = TRUE,
                 !.log = Append(@, [op |-> "getsize", f |-> f, ok |-> FALSE])]
    ELSE w

\* faulty variant of sha1: a failing open() is swallowed and the digest of
\* no data is cached
sha1_swallow(w, f) ==
    IF w.raised THEN w
    ELSE IF w.files[f]._sha1 = None
    THEN IF open_ok(w.files[f].full_path)
         THEN [w EXCEPT
                 !.files[f]._sha1 = Some(hexdigest(
                     read_loop(disk[w.files[f].full_path].data, 0, <<>>))),
                 !.log = Append(@, [op |-> "open", f |-> f, ok |-> TRUE])]
         ELSE [w EXCEPT
                 !.files[f]._sha1 = Some(hexdigest(<<>>)),
                 !.log = Append(@, [op |-> "open", f |-> f, ok |-> FALSE])]
    ELSE w

\* property LazyFile.sha1: the world after evaluating w.files[f].sha1
sha1(w, f) ==
    IF w.raised THEN w
    ELSE IF w.files[f]._sha1 = None
    THEN IF open_ok(w.files[f].full_path)
         THEN [w EXCEPT
                 !.files[f]._sha1 = Some(hexdigest(
                     read_loop(disk[w.files[f].full_path].data, 0, <<>>))),
                 !.log = Append(@, [op |-> "open", f |-> f, ok |-> TRUE])]
         ELSE [w EXCEPT
                 !.raised = TRUE,
                 !.log = Append(@, [op |-> "open", f |-> f, ok |-> FALSE])]
    ELSE w

\* faulty variant of ignored_by_path: startswith instead of endswith
ignored_by_path_startswith(file) ==
    \E i \in 1..Len(IGNORED_FILES) :
        /\ Len(IGNORED_FILES[i]) <= Len(file.full_path)
        /\ SubSeq(file.full_path, 1, Len(IGNORED_FILES[i])) = IGNORED_FILES[i]

\* LazyFile.ignored_by_path
ignored_by_path(file) ==
    \E i \in 1..Len(IGNORED_FILES) : endswith(file.full_path, IGNORED_FILES[i])

(***************************************************************************)
(* Key functions: "size" is `lambda f: f.size`, "sha1" is `lambda f:       *)
(* f.sha1` (main, line 118).                                               *)
(***************************************************************************)
\* faulty variant of key_call: every key function also computes the hash
key_call_eager(w, func, f) == sha1(size(w, f), f)

\* the world after func(f)
key_call(w, func, f) == IF func = "size" THEN size(w, f) ELSE sha1(w, f)

\* the value func(f) returned, read in the world the call left behind
key_value(w, func, f) ==
    IF func = "size" THEN w.files[f]._size[1] ELSE w.files[f]._sha1[1]

\* res.setdefault(k, []).append(f)
setdefault_append(res, k, f) ==
    IF k \in DOMAIN res THEN [res EXCEPT ![k] = Append(@, f)]
    ELSE res @@ (k :> <<f>>)

\* group_by(files, func): [w, res] with res the dict key -> descriptors;
\* once a key raises, the remaining files are not visited
RECURSIVE group_by_from(_, _, _, _)
group_by_from(acc, fs, func, i) ==
    IF i > Len(fs) \/ acc.w.raised THEN acc
    ELSE LET w1 == key_call(acc.w, func, fs[i])
         IN IF w1.raised THEN [w |-> w1, res |-> acc.res]
            ELSE group_by_from(
                     [w |-> w1,
                      res |-> setdefault_append(
                                  acc.res, key_value(w1, func, fs[i]), fs[i])],
                     fs, func, i + 1)

\* faulty variant of group_by: the first file of the list is skipped
group_by_skip_first(w, fs, func) ==
    group_by_from([w |-> w, res |-> <<>>], fs, func, 2)

group_by(w, fs, func) == group_by_from([w |-> w, res |-> <<>>], fs, func, 1)

\* the order in which a set of keys of scratch_group is iterated.  Python
\* fixes no order for a set; `ord`, a permutation of the descriptors, picks
\* one: keys come in the order in which `ord` first meets their groups
RECURSIVE set_iter(_, _, _)
set_iter(keys, group, ord) ==
    IF keys = {} \/ ord = <<>> THEN <<>>
    ELSE LET here == {k \in keys :
                        \E i \in 1..Len(group[k]) : group[k][i] = Head(ord)}
         IN IF here = {} THEN set_iter(keys, group, Tail(ord))
            ELSE LET k == CHOOSE k \in here : TRUE
                 IN <<k>> \o set_iter(keys \ {k}, group, Tail(ord))

\* set(scratch_group) & set(archive_group)
matching_keys(scratch_group, archive_group) ==
    DOMAIN scratch_group \cap DOMAIN archive_group

\* faulty variant of non_matching_keys: the matching keys are not removed
non_matching_keys_all(scratch_group, archive_group) == DOMAIN scratch_group

\* set(scratch_group) - matching_keys
non_matching_keys(scratch_group, archive_group) ==
    DOMAIN scratch_group \ matching_keys(scratch_group, archive_group)

\* itertools.chain.from_iterable([group[k] for k in keys])
RECURSIVE chain(_, _)
chain(group, keys) ==
    IF keys = <<>> THEN <<>>
    ELSE group[Head(keys)] \o chain(group, Tail(keys))

\* match_by(scratch, archive, funcs): [w, matching, no_match]
RECURSIVE match_by(_, _, _, _, _)
RECURSIVE match_loop(_, _, _, _, _, _)

\* faulty variant of match_loop: the recursion gets the whole archive list
\* instead of archive_group[k]
RECURSIVE all_groups(_, _)
all_groups(group, keys) ==
    IF keys = {} THEN <<>>
    ELSE LET k == CHOOSE k \in keys : TRUE
         IN group[k] \o all_groups(group, keys \ {k})

RECURSIVE match_loop_whole_archive(_, _, _, _, _, _)
match_loop_whole_archive(acc, keys, scratch_group, archive_group, rest, ord) ==
    IF keys = <<>> \/ acc.w.raised THEN acc
    ELSE LET r == match_by(acc.w, scratch_group[Head(keys)],
                           all_groups(archive_group, DOMAIN archive_group),
                           rest, ord)
         IN match_loop_whole_archive(
                [w |-> r.w,
                 matching |-> acc.matching \o r.matching,
                 no_match |-> acc.no_match \o r.no_match],
                Tail(keys), scratch_group, archive_group, rest, ord)

\* the for loop of match_by over the matching keys
match_loop(acc, keys, scratch_group, archive_group, rest, ord) ==
    IF keys = <<>> \/ acc.w.raised THEN acc
    ELSE LET r == match_by(acc.w, scratch_group[Head(keys)],
                           archive_group[Head(keys)], rest, ord)
         IN match_loop([w |-> r.w,
                        matching |-> acc.matching \o r.matching,
                        no_match |-> acc.no_match \o r.no_match],
                       Tail(keys), scratch_group, archive_group, rest, ord)

match_by(w, scr, arc, fl, ord) ==
    IF Len(fl) = 0 THEN [w |-> w, matching |-> scr, no_match |-> <<>>]
    ELSE LET sg == group_by(w, scr, fl[1])
             ag == group_by(sg.w, arc, fl[1])
         IN IF ag.w.raised
            THEN [w |-> ag.w, matching |-> <<>>, no_match |-> <<>>]
            ELSE match_loop(
                     [w |-> ag.w,
                      matching |-> <<>>,
                      no_match |-> chain(sg.res,
                          set_iter(non_matching_keys(sg.res, ag.res), sg.res, ord))],
                     set_iter(matching_keys(sg.res, ag.res), sg.res, ord),
                     sg.res, ag.res, Tail(fl), ord)

\* read_files(directory_or_file): [heap, res, printed]; new LazyFile objects
\* are appended to the heap
read_files(heap, directory_or_file) ==
    IF os_path_isfile(directory_or_file)
    THEN [heap |-> Append(heap, LazyFile(directory_or_file)),
          res |-> <<Len(heap) + 1>>,
          printed |-> <<>>]
    ELSE LET filenames == os_walk(directory_or_file)
         IN [heap |-> heap \o [i \in 1..Len(filenames) |->
                          LazyFile(os_path_join(directory_or_file, filenames[i]))],
             res |-> [i \in 1..Len(filenames) |-> Len(heap) + i],
             printed |-> <<[line |-> "total", total_files |-> Len(filenames),
                            dir |-> directory_or_file]>>]

\* filter(lambda f: not f.ignored_by_path(), scratch)
filter_ignored(heap, fs) == SelectSeq(fs, LAMBDA f : ~ignored_by_path(heap[f]))

\* the text write_paths_to_file(files, out_file) writes into out_file
write_paths_to_file(heap, fs) ==
    str_join(<<10>>, list_sort([i \in 1..Len(fs) |-> heap[fs[i]].full_path]))
        \o <<10>>

(***************************************************************************)
(* The inputs the model draws from.                                        *)
(***************************************************************************)
ScratchRoot == <<115>>                                \* 's'
ArchiveRoot == <<114>>                                \* 'r'
OutputDir == <<111>>                                  \* 'o'
\* 'b', 'a', '.DS_Store'
FileNames == { <<98>>, <<97>>, <<46, 68, 83, 95, 83, 116, 111, 114, 101>> }
\* file contents: empty, two different one-byte files
Contents == { <<>>, <<1>>, <<2>> }
RootKinds == {"missing", "file", "dir"}

Range(f) == {f[i] : i \in DOMAIN f}
Distinct(l) == \A i, j \in 1..Len(l) : i # j => l[i] # l[j]
Listings == {l \in UNION {[1..k -> FileNames] : k \in 0..MaxFiles} : Distinct(l)}
Perms(l) == {p \in [1..Len(l) -> Range(l)] : Distinct(p)}

\* the file paths of a root of the given kind and listing
PathsOf(root, kind, listing) ==
    IF kind = "file" THEN {root}
    ELSE IF kind = "dir" THEN {os_path_join(root, listing[i]) : i \in 1..Len(listing)}
    ELSE {}

\* a file system: the two roots, each missing, a file or a flat directory,
\* and possibly the output directory
FileSystem(sk, sl, ak, al, outdir, data) ==
    /\ dirs = [d \in (IF sk = "dir" THEN {ScratchRoot} ELSE {})
                     \cup (IF ak = "dir" THEN {ArchiveRoot} ELSE {})
                     \cup (IF outdir THEN {OutputDir} ELSE {})
               |-> IF d = ScratchRoot THEN sl ELSE IF d = ArchiveRoot THEN al ELSE <<>>]
    /\ disk = [p \in DOMAIN data |->
                 [exists |-> TRUE, readable |-> TRUE, data |-> data[p]]]

SomeFileSystem ==
    \E sk \in RootKinds, ak \in RootKinds, sl \in Listings, al \in Listings,
       outdir \in BOOLEAN :
        /\ outdir => args.output # None
        /\ sk # "dir" => sl = <<>>
        /\ ak # "dir" => al = <<>>
        /\ Cardinality(PathsOf(ScratchRoot, sk, sl))
             + Cardinality(PathsOf(ArchiveRoot, ak, al)) <= MaxFiles
        /\ \E data \in [PathsOf(ScratchRoot, sk, sl)
                          \cup PathsOf(ArchiveRoot, ak, al) -> Contents] :
               FileSystem(sk, sl, ak, al, outdir, data)

(***************************************************************************)
(* main(), one action per statement.                                       *)
(***************************************************************************)
\* state after parser.parse_args(): --scratch and --archive given, --output
\* given or not; nothing read yet
Init ==
    /\ pc = "start"
    /\ \E out \in {None, Some(OutputDir)} :
           args = [scratch |-> ScratchRoot, archive |-> ArchiveRoot, output |-> out]
    /\ SomeFileSystem
    /\ files = <<>>
    /\ scratch = <<>>
    /\ archive = <<>>
    /\ funcs = <<>>
    /\ matched = None
    /\ no_match = None
    /\ log = <<>>
    /\ stdout = <<>>
    /\ written = {}
    /\ ret = None
    /\ nenv = 0

\* scratch = read_files(args.scratch)
ReadScratch ==
    /\ pc = "start"
    /\ LET r == read_files(files, args.scratch)
       IN /\ files' = r.heap
          /\ scratch' = r.res
          /\ stdout' = stdout \o r.printed
    /\ pc' = "read_archive"
    /\ UNCHANGED <<args, dirs, disk, archive, funcs, matched, no_match, log,
                   written, ret, nenv>>

\* archive = read_files(args.archive)
ReadArchive ==
    /\ pc = "read_archive"
    /\ LET r == read_files(files, args.archive)
       IN /\ files' = r.heap
          /\ archive' = r.res
          /\ stdout' = stdout \o r.printed
    /\ pc' = "filter"
    /\ UNCHANGED <<args, dirs, disk, scratch, funcs, matched, no_match, log,
                   written, ret, nenv>>

\* scratch = list(filter(lambda f: not f.ignored_by_path(), scratch))
FilterScratch ==
    /\ pc = "filter"
    /\ scratch' = filter_ignored(files, scratch)
    /\ pc' = "match"
    /\ UNCHANGED <<args, dirs, disk, files, archive, funcs, matched, no_match,
                   log, stdout, written, ret, nenv>>

\* matched, no_match = match_by(scratch, archive, fl); an exception raised by
\* a key leaves matched and no_match unassigned and ends main
MatchBy(fl) ==
    /\ pc = "match"
    /\ funcs' = fl
    /\ \E ord \in Perms(scratch) :
        LET r == match_by([files |-> files, log |-> log, raised |-> FALSE],
                          scratch, archive, fl, ord)
        IN /\ files' = r.w.files
           /\ log' = r.w.log
           /\ IF r.w.raised
              THEN /\ pc' = "error"
                   /\ UNCHANGED <<matched, no_match>>
              ELSE /\ pc' = "summary"
                   /\ matched' = Some(r.matching)
                   /\ no_match' = Some(r.no_match)
    /\ UNCHANGED <<args, dirs, disk, scratch, archive, stdout, written, ret, nenv>>

\* match_by(scratch, archive, [lambda f: f.size, lambda f: f.sha1])
Match == MatchBy(<<"size", "sha1">>)

\* print(f'{len(no_match)}/{len(scratch)} scratch files do not appear ...')
PrintSummary ==
    /\ pc = "summary"
    /\ stdout' = Append(stdout, [line |-> "summary",
                                 missing |-> Len(no_match[1]),
                                 scratch |-> Len(scratch),
                                 archive |-> Len(archive)])
    /\ pc' = "write"
    /\ UNCHANGED <<args, dirs, disk, files, scratch, archive, funcs, matched,
                   no_match, log, written, ret, nenv>>

\* if args.output is not None: write duplicates.txt and missing.txt; open()
\* raises when the output directory does not exist
WriteReports ==
    /\ pc = "write"
    /\ IF args.output = None
       THEN pc' = "done" /\ UNCHANGED written
       ELSE IF args.output[1] \in DOMAIN dirs
       THEN /\ written' = written \cup
                  { [name |-> "duplicates.txt",
                     text |-> write_paths_to_file(files, matched[1])],
                    [name |-> "missing.txt",
                     text |-> write_paths_to_file(files, no_match[1])] }
            /\ pc' = "done"
       ELSE pc' = "error" /\ UNCHANGED written
    /\ UNCHANGED <<args, dirs, disk, files, scratch, archive, funcs, matched,
                   no_match, log, stdout, ret, nenv>>

(***************************************************************************)
(* The environment: between enumeration and matching a file may disappear  *)
(* or lose its read permission.                                            *)
(***************************************************************************)
FileVanishes ==
    /\ pc = "match"
    /\ nenv < MaxFaults
    /\ \E p \in DOMAIN disk :
        /\ disk[p].exists
        /\ disk' = [disk EXCEPT ![p].exists = FALSE]
    /\ nenv' = nenv + 1
    /\ UNCHANGED <<pc, args, dirs, files, scratch, archive, funcs, matched,
                   no_match, log, stdout, written, ret>>

FileUnreadable ==
    /\ pc = "match"
    /\ nenv < MaxFaults
    /\ \E p \in DOMAIN disk :
        /\ disk[p].exists
        /\ disk[p].readable
        /\ disk' = [disk EXCEPT ![p].readable = FALSE]
    /\ nenv' = nenv + 1
    /\ UNCHANGED <<pc, args, dirs, files, scratch, archive, funcs, matched,
                   no_match, log, stdout, written, ret>>

Next ==
    \/ ReadScratch
    \/ ReadArchive
    \/ FilterScratch
    \/ Match
    \/ PrintSummary
    \/ WriteReports
    \/ FileVanishes
    \/ FileUnreadable

Spec == Init /\ [][Next]_vars

(***************************************************************************)
(* match_by on its own: any two lists of fresh descriptors (what           *)
(* read_files returns, unfiltered) of readable files and any key-function  *)
(* list.                                                                   *)
(***************************************************************************)
FuncLists == UNION {[1..k -> {"size", "sha1"}] : k \in 0..MaxFuncs}

InitMatch ==
    /\ pc = "match"
    /\ args = [scratch |-> ScratchRoot, archive |-> ArchiveRoot, output |-> None]
    /\ SomeFileSystem
    /\ LET s == read_files(<<>>, args.scratch)
           a == read_files(s.heap, args.archive)
       IN /\ files = a.heap
          /\ scratch = s.res
          /\ archive = a.res
    /\ funcs = <<>>
    /\ matched = None
    /\ no_match = None
    /\ log = <<>>
    /\ stdout = <<>>
    /\ written = {}
    /\ ret = None
    /\ nenv = 0

CallMatchBy == \E fl \in FuncLists : MatchBy(fl)

SpecMatch == InitMatch /\ [][CallMatchBy]_vars

(***************************************************************************)
(* LazyFile on its own: two descriptors of one path, any sequence of size  *)
(* and sha1 accesses, while the file is rewritten, removed, created or     *)
(* has its read permission changed.                                        *)
(***************************************************************************)
ncalls == IF ret = None THEN 0 ELSE ret[1].n

InitLazy ==
    /\ pc = "lazy"
    /\ args = [scratch |-> ScratchRoot, archive |-> ArchiveRoot, output |-> None]
    /\ dirs = [d \in {} |-> <<>>]
    /\ \E e \in BOOLEAN, r \in BOOLEAN, d \in Contents :
           disk = [p \in {ScratchRoot} |-> [exists |-> e, readable |-> r, data |-> d]]
    /\ files = <<LazyFile(ScratchRoot), LazyFile(ScratchRoot)>>
    /\ scratch = <<1, 2>>
    /\ archive = <<>>
    /\ funcs = <<>>
    /\ matched = None
    /\ no_match = None
    /\ log = <<>>
    /\ stdout = <<>>
    /\ written = {}
    /\ ret = None
    /\ nenv = 0

\* x = files[f].size  or  x = files[f].sha1
Access(func, f) ==
    /\ pc = "lazy"
    /\ ncalls + nenv < MaxCalls
    /\ LET w == key_call([files |-> files, log |-> log, raised |-> FALSE], func, f)
       IN /\ files' = w.files
          /\ log' = w.log
          /\ ret' = Some([n |-> ncalls + 1, attr |-> func, f |-> f,
                          raised |-> w.raised, io |-> w.log # log,
                          value |-> IF w.raised THEN None
                                    ELSE Some(key_value(w, func, f))])
    /\ UNCHANGED <<pc, args, dirs, disk, scratch, archive, funcs, matched,
                   no_match, stdout, written, nenv>>

GetSize == \E f \in DOMAIN files : Access("size", f)

GetSha1 == \E f \in DOMAIN files : Access("sha1", f)

\* the environment changes one field of the file's state
EnvChange(p, field, v) ==
    /\ pc = "lazy"
    /\ ncalls + nenv < MaxCalls
    /\ disk[p][field] # v
    /\ disk' = [disk EXCEPT ![p][field] = v]
    /\ nenv' = nenv + 1
    /\ UNCHANGED <<pc, args, dirs, files, scratch, archive, funcs, matched,
                   no_match, log, stdout, written, ret>>

FileRewritten == \E p \in DOMAIN disk, d \in Contents : EnvChange(p, "data", d)

FileRemovedOrCreated == \E p \in DOMAIN disk, e \in BOOLEAN : EnvChange(p, "exists", e)

FileChmod == \E p \in DOMAIN disk, r \in BOOLEAN : EnvChange(p, "readable", r)

NextLazy ==
    \/ GetSize
    \/ GetSha1
    \/ FileRewritten
    \/ FileRemovedOrCreated
    \/ FileChmod

SpecLazy == InitLazy /\ [][NextLazy]_vars

(***************************************************************************)
(* Vocabulary of the properties.  The size and digest of a descriptor's    *)
(* file are taken from the file system, not from the descriptor's cache.   *)
(***************************************************************************)
Count(l, x) == Cardinality({i \in 1..Len(l) : l[i] = x})
SameElements(l1, l2) == \A x \in Range(l1) \cup Range(l2) : Count(l1, x) = Count(l2, x)
PathOf(f) == files[f].full_path
FileSize(f) == Len(disk[PathOf(f)].data)
FileDigest(f) == [hex |-> disk[PathOf(f)].data]
Reads(op, f) == Cardinality({i \in 1..Len(log) : log[i].op = op /\ log[i].f = f})
GoodReads(op, f) ==
    Cardinality({i \in 1..Len(log) : log[i].op = op /\ log[i].f = f /\ log[i].ok})
Returned == matched # None /\ no_match # None
SummaryLines == {i \in 1..Len(stdout) : stdout[i].line = "summary"}
SizeShared(f, others) == \E g \in Range(others) : FileSize(g) = FileSize(f)
InTree(root, p) ==
    \/ p = root
    \/ Len(p) > Len(root) /\ SubSeq(p, 1, Len(root) + 1) = root \o <<47>>
\* '.DS_Store', '.gdoc', '.gsheet', '.gslides' as the suffix of a path
HasIgnoredSuffix(p) ==
    \E suffix \in { <<46, 68, 83, 95, 83, 116, 111, 114, 101>>,
                    <<46, 103, 100, 111, 99>>,
                    <<46, 103, 115, 104, 101, 101, 116>>,
                    <<46, 103, 115, 108, 105, 100, 101, 115>> } :
        /\ Len(p) >= Len(suffix)
        /\ \A k \in 1..Len(suffix) : p[Len(p) - Len(suffix) + k] = suffix[k]

\* paths with each ignored suffix, and near misses
ProbePaths ==
    {
      <<115, 47, 120, 46, 103, 100, 111, 99>>,  \* 's/x.gdoc'
      <<115, 47, 120, 46, 103, 115, 104, 101, 101, 116>>,  \* 's/x.gsheet'
      <<115, 47, 120, 46, 103, 115, 108, 105, 100, 101, 115>>,  \* 's/x.gslides'
      <<115, 47, 46, 68, 83, 95, 83, 116, 111, 114, 101>>,  \* 's/.DS_Store'
      <<46, 103, 100, 111, 99>>,  \* '.gdoc'
      <<115, 47, 46, 103, 100, 111, 99, 46, 116, 120, 116>>,  \* 's/.gdoc.txt'
      <<115, 47, 103, 100, 111, 99>>,  \* 's/gdoc'
      <<115, 47, 46, 68, 83, 95, 83, 116, 111, 114, 101, 47, 97>>,  \* 's/.DS_Store/a'
      <<100, 111, 99>>,  \* 'doc'
      <<115, 47, 120, 46, 103, 115, 108, 105, 100, 101>>,  \* 's/x.gslide'
      <<115, 47, 120, 46, 71, 68, 79, 67>>   \* 's/x.GDOC'
    }

\* paths, one per line, each line ended by '\n'
RECURSIVE Lines(_)
Lines(paths) ==
    IF paths = <<>> THEN <<>> ELSE Head(paths) \o <<10>> \o Lines(Tail(paths))
Ascending(paths) == \A i \in 1..(Len(paths) - 1) : ~str_lt(paths[i + 1], paths[i])
\* text is the paths of the descriptors fs in ascending order, one per line
IsReportOf(text, fs) ==
    \E order \in Perms([i \in 1..Len(fs) |-> i]) :
        LET paths == [i \in 1..Len(fs) |-> PathOf(fs[order[i]])]
        IN Ascending(paths) /\ text = Lines(paths)

(***************************************************************************)
(* C1 (SpecMatch).  When match_by returns, every descriptor of the scratch *)
(* list occurs exactly once in matched and no_match taken together, and    *)
(* nothing else (no archive descriptor) occurs in either list.             *)
(***************************************************************************)
C1_Partition ==
    Returned =>
        /\ \A f \in Range(scratch) : Count(matched[1] \o no_match[1], f) = 1
        /\ Range(matched[1]) \cup Range(no_match[1]) \subseteq Range(scratch)
        /\ (Range(matched[1]) \cup Range(no_match[1])) \cap Range(archive) = {}

C1_Witness ==
    /\ Returned
    /\ Len(funcs) = 2
    /\ matched[1] # <<>>
    /\ no_match[1] # <<>>
    /\ archive # <<>>

(***************************************************************************)
(* C2 (Spec).  With the keys [size, sha1] of main, a scratch descriptor is *)
(* in matched iff some archive descriptor's file has the same size and the *)
(* same digest; otherwise it is in no_match.  The archive descriptor is    *)
(* not consumed: the condition does not depend on the other scratch files. *)
(***************************************************************************)
C2_MatchedIffSizeAndHash ==
    Returned =>
        \A f \in Range(scratch) :
            LET present == \E a \in Range(archive) :
                               FileSize(a) = FileSize(f) /\ FileDigest(a) = FileDigest(f)
            IN /\ f \in Range(matched[1]) <=> present
               /\ f \in Range(no_match[1]) <=> ~present

\* two scratch files of one size, one archive file of that size: the one
\* with the archive's digest is matched, the other is not
C2_Witness ==
    /\ Returned
    /\ Len(archive) = 1
    /\ \E f \in Range(matched[1]), g \in Range(no_match[1]) :
           /\ FileSize(f) = FileSize(g)
           /\ FileSize(g) = FileSize(archive[1])
           /\ FileDigest(g) # FileDigest(archive[1])

(***************************************************************************)
(* C3 (Spec).  A scratch descriptor whose size is the size of no archive   *)
(* descriptor never has its file opened for hashing, its sha1 cache stays  *)
(* unset in every state of the run, and it is in no_match once match_by    *)
(* has returned.                                                           *)
(***************************************************************************)
C3_NoHashWithoutSizeMatch ==
    \A f \in Range(scratch) :
        ~SizeShared(f, archive) =>
            /\ files[f]._sha1 = None
            /\ Reads("open", f) = 0
            /\ Returned => f \in Range(no_match[1])

\* a run in which hashes were computed, but not for the scratch file whose
\* size no archive file has
C3_Witness ==
    /\ pc = "done"
    /\ archive # <<>>
    /\ \E i \in 1..Len(log) : log[i].op = "open"
    /\ \E f \in Range(scratch) :
           /\ ~SizeShared(f, archive)
           /\ Reads("getsize", f) = 1
           /\ f \in Range(no_match[1])

(***************************************************************************)
(* C4 (SpecLazy).  Once _size or _sha1 of a descriptor is set it never     *)
(* changes; an access to a set attribute returns the cached value, does    *)
(* not raise and reads nothing from the file system, whatever has happened *)
(* to the file; so each attribute of each descriptor is read successfully  *)
(* at most once (a size of 0 included).                                    *)
(***************************************************************************)
C4_CachedOnce ==
    [][\A f \in DOMAIN files :
          /\ files[f]._size # None => files'[f]._size = files[f]._size
          /\ files[f]._sha1 # None => files'[f]._sha1 = files[f]._sha1
          /\ (ret' # ret /\ ret'[1].f = f /\ ret'[1].attr = "size"
                /\ files[f]._size # None)
               => /\ ret'[1].value = files[f]._size
                  /\ ~ret'[1].raised
                  /\ log' = log
          /\ (ret' # ret /\ ret'[1].f = f /\ ret'[1].attr = "sha1"
                /\ files[f]._sha1 # None)
               => /\ ret'[1].value = files[f]._sha1
                  /\ ~ret'[1].raised
                  /\ log' = log
          /\ Cardinality({i \in 1..Len(log') :
                 log'[i].op = "getsize" /\ log'[i].f = f /\ log'[i].ok}) <= 1
          /\ Cardinality({i \in 1..Len(log') :
                 log'[i].op = "open" /\ log'[i].f = f /\ log'[i].ok}) <= 1
      ]_vars

\* a size of 0 was cached, the file was changed or removed, and a later
\* access returned 0 without touching the file system
C4_Witness ==
    /\ pc = "lazy"
    /\ ret # None
    /\ ret[1].attr = "size"
    /\ ~ret[1].io
    /\ ret[1].value = Some(0)
    /\ \/ ~disk[PathOf(ret[1].f)].exists
       \/ Len(disk[PathOf(ret[1].f)].data) # 0

(***************************************************************************)
(* C5 (Spec).  If the scratch root or the archive root does not exist, the *)
(* run stops before matching: match_by is never called, no summary line is *)
(* printed and no report is written.                                       *)
(***************************************************************************)
RootMissing(root) == root \notin DOMAIN dirs /\ root \notin DOMAIN disk

C5_AbortsOnMissingRoot ==
    (RootMissing(ScratchRoot) \/ RootMissing(ArchiveRoot)) =>
        /\ funcs = <<>>
        /\ ~Returned
        /\ SummaryLines = {}
        /\ written = {}

(***************************************************************************)
(* C6 (Spec).  If a read of a key (getsize or open) fails during matching, *)
(* main ends in the error state: matched and no_match are never assigned,  *)
(* no summary line is printed, no report is written; the failed read is    *)
(* the last read of the run (nothing is skipped over) and no read of a     *)
(* descriptor is done twice (nothing is retried).                          *)
(***************************************************************************)
C6_KeyFailureAborts ==
    (\E i \in 1..Len(log) : ~log[i].ok) =>
        /\ pc = "error"
        /\ ~Returned /\ matched = None /\ no_match = None
        /\ SummaryLines = {}
        /\ written = {}
        /\ \A i \in 1..Len(log) : ~log[i].ok => i = Len(log)
        /\ \A f \in DOMAIN files : Reads("getsize", f) <= 1 /\ Reads("open", f) <= 1

\* the hash of a file that lost its read permission was asked for, after
\* other reads had succeeded
C6_Witness ==
    /\ pc = "error"
    /\ Len(log) > 2
    /\ log[Len(log)].op = "open"
    /\ ~log[Len(log)].ok
    /\ args.output # None

(***************************************************************************)
(* C7 (Spec).  At the end of main: without --output nothing is written;    *)
(* with --output exactly duplicates.txt and missing.txt are written, the   *)
(* first with the paths of matched, the second with the paths of no_match, *)
(* each file being its paths in ascending order, every path followed by    *)
(* one newline and nothing else (an empty list gives an empty file).       *)
(***************************************************************************)
C7_ReportFormat ==
    pc = "done" =>
        IF args.output = None THEN written = {}
        ELSE /\ {r.name : r \in written} = {"duplicates.txt", "missing.txt"}
             /\ Cardinality(written) = 2
             /\ \A r \in written :
                    IsReportOf(r.text,
                               IF r.name = "duplicates.txt" THEN matched[1]
                               ELSE no_match[1])

(***************************************************************************)
(* C8 (Spec).  ignored_by_path is true exactly of the paths ending with    *)
(* .DS_Store, .gdoc, .gsheet or .gslides.  After the filter no scratch     *)
(* descriptor has such a suffix, so none is in matched or no_match, and    *)
(* the summary counts only the scratch files without one.  The archive     *)
(* list is never filtered: it holds every file of the archive tree, the    *)
(* summary counts them all, and an archive file with an ignored suffix     *)
(* still makes a scratch file of the same size and digest matched.         *)
(***************************************************************************)
C8_IgnoreFilterScratchOnly ==
    pc \notin {"start", "read_archive", "filter"} =>
        /\ (pc = "match" /\ nenv = 0) =>
               \A p \in ProbePaths \cup DOMAIN disk :
                   ignored_by_path(LazyFile(p)) <=> HasIgnoredSuffix(p)
        /\ \A f \in Range(scratch) : ~HasIgnoredSuffix(PathOf(f))
        /\ {PathOf(f) : f \in Range(scratch)} =
               {p \in DOMAIN disk : InTree(ScratchRoot, p) /\ ~HasIgnoredSuffix(p)}
        /\ {PathOf(a) : a \in Range(archive)} =
               {p \in DOMAIN disk : InTree(ArchiveRoot, p)}
        /\ Returned =>
               /\ \A f \in Range(matched[1]) \cup Range(no_match[1]) :
                      ~HasIgnoredSuffix(PathOf(f))
               /\ \A f \in Range(scratch), a \in Range(archive) :
                      (HasIgnoredSuffix(PathOf(a)) /\ FileSize(a) = FileSize(f)
                         /\ FileDigest(a) = FileDigest(f))
                        => f \in Range(matched[1])
        /\ \A i \in SummaryLines :
               /\ stdout[i].scratch = Cardinality(
                      {p \in DOMAIN disk : InTree(ScratchRoot, p) /\ ~HasIgnoredSuffix(p)})
               /\ stdout[i].archive = Cardinality(
                      {p \in DOMAIN disk : InTree(ArchiveRoot, p)})

\* the scratch tree holds an ignored file that was dropped; the archive
\* holds only an ignored file, and it matched the other scratch file
C8_Witness ==
    /\ pc = "done"
    /\ \E p \in DOMAIN disk : InTree(ScratchRoot, p) /\ HasIgnoredSuffix(p)
    /\ Len(scratch) = 1
    /\ Len(archive) = 1
    /\ HasIgnoredSuffix(PathOf(archive[1]))
    /\ matched[1] = scratch

(***************************************************************************)
(* C9 (SpecMatch).  For a non-empty key-function list: with an empty       *)
(* scratch list match_by returns two empty lists; with an empty archive    *)
(* list and a non-empty scratch list it returns an empty matched and a     *)
(* no_match holding exactly the scratch descriptors, and only the first    *)
(* key was ever computed.  Neither call raises (the files are readable).   *)
(***************************************************************************)
FirstKeyOp == IF funcs[1] = "size" THEN "getsize" ELSE "open"

C10_HashOnlyOnSizeMatch ==
    /\ \A a \in Range(archive) : Reads("open", a) > 0 => SizeShared(a, scratch)
    /\ \A f \in Range(scratch) : Reads("open", f) > 0 => SizeShared(f, archive)
    /\ \A f \in DOMAIN files : Reads("open", f) <= 1 /\ Reads("getsize", f) <= 1
    /\ \A f \in DOMAIN files \ (Range(scratch) \cup Range(archive)) :
           pc \notin {"start", "read_archive", "filter"} =>
               Reads("open", f) = 0 /\ Reads("getsize", f) = 0
    /\ Returned =>
           /\ \A f \in Range(scratch) \cup Range(archive) : GoodReads("getsize", f) = 1
           /\ \A f \in Range(scratch) :
                  GoodReads("open", f) = (IF SizeShared(f, archive) THEN 1 ELSE 0)
           /\ \A a \in Range(archive) :
                  GoodReads("open", a) = (IF SizeShared(a, scratch) THEN 1 ELSE 0)

\* an archive file was hashed, another archive file of a size no scratch
\* file has was not
C10_Witness ==
    /\ pc = "done"
    /\ \E a \in Range(archive) : Reads("open", a) = 1
    /\ \E a \in Range(archive) : Reads("open", a) = 0 /\ Reads("getsize", a) = 1
    /\ \E f \in Range(scratch) : Reads("open", f) = 1

====
